---- MODULE Spec2Model ----
(***************************************************************************)
(* A model of the Fizicks motion engine: Vector arithmetic (data.py), the  *)
(* body with its debt queue (matter.py), the three laws and the per-body   *)
(* update (motion.py) and collision detection / resolution (collision.py). *)
(*                                                                         *)
(* Numbers.  The program computes with Python floats.  A scalar is         *)
(* modelled as an exact rational <<n, d>> in lowest terms with d > 0, so   *)
(* the true division of the elastic-collision formula and the truncating   *)
(* int(x / s) of Vector.__truediv__ are both computed as the code computes *)
(* them; floating-point rounding error is not modelled.  A Vector is a     *)
(* triple <<x, y, z>> of scalars.                                          *)
(*                                                                         *)
(* Updates.  The source has two per-body updates that do not call each     *)
(* other: Matter.update(area), which drains the debt, moves the body,      *)
(* wraps it when area.has_boundaries and clears the debt; and              *)
(* Motion.update(object, universe), which checks border and body           *)
(* collisions and applies the three laws.  Both are actions of the model.  *)
(* The universe of the model is the one space both are called with: its    *)
(* has_boundaries is that of Space (visual.py), not toroidal.              *)
(* Matter.add_debt, which Collision._resolve_objects calls, is not         *)
(* defined by matter.py; it is modelled as an append to the debt queue.    *)
(***************************************************************************)
EXTENDS Integers, Sequences, FiniteSets, TLC

(***************************************************************************)
(* Bounds of the model.                                                    *)
(***************************************************************************)
MaxSteps == 3
MaxMass == 2

(***************************************************************************)
(* Scalars: exact rationals.                                               *)
(***************************************************************************)
Abs(n) == IF n < 0 THEN -n ELSE n

Sign(n) == IF n < 0 THEN -1 ELSE IF n > 0 THEN 1 ELSE 0

RECURSIVE GCD(_, _)
GCD(a, b) == IF b = 0 THEN a ELSE GCD(b, a % b)

\* n/d in lowest terms with a positive denominator (d # 0).
Rat(n, d) ==
    LET g == GCD(Abs(n), Abs(d))
        s == Sign(d)
    IN  <<(s * n) \div g, (s * d) \div g>>

R(n) == <<n, 1>>

RAdd(a, b) == Rat(a[1] * b[2] + b[1] * a[2], a[2] * b[2])

RSub(a, b) == Rat(a[1] * b[2] - b[1] * a[2], a[2] * b[2])

RMul(a, b) == Rat(a[1] * b[1], a[2] * b[2])

\* a / b for b # 0 (Python raises ZeroDivisionError for b = 0; callers guard).
RDiv(a, b) == Rat(a[1] * b[2], a[2] * b[1])

RNeg(a) == <<-a[1], a[2]>>

RLt(a, b) == a[1] * b[2] < b[1] * a[2]

RLe(a, b) == a[1] * b[2] <= b[1] * a[2]

\* floor(a)
RFloor(a) == a[1] \div a[2]

\* Python int(a): truncation toward zero.
RInt(a) == IF a[1] >= 0 THEN a[1] \div a[2] ELSE -((-a[1]) \div a[2])

\* Python a % b for b # 0: a - b * floor(a / b).
RMod(a, b) == RSub(a, RMul(b, R(RFloor(RDiv(a, b)))))

(***************************************************************************)
(* Vector (data.py).                                                       *)
(***************************************************************************)
Vector(x, y, z) == <<R(x), R(y), R(z)>>

Zero == Vector(0, 0, 0)

add(a, b) == <<RAdd(a[1], b[1]), RAdd(a[2], b[2]), RAdd(a[3], b[3])>>

sub(a, b) == <<RSub(a[1], b[1]), RSub(a[2], b[2]), RSub(a[3], b[3])>>

mul(a, s) == <<RMul(a[1], s), RMul(a[2], s), RMul(a[3], s)>>

\* A variant of Vector.__truediv__ that rounds every quotient down (floor)
\* instead of truncating it toward zero.
truediv_floor(a, s) ==
    <<R(RFloor(RDiv(a[1], s))), R(RFloor(RDiv(a[2], s))), R(RFloor(RDiv(a[3], s)))>>

\* Vector.__truediv__: every component is int(component / other), for other # 0.
truediv(a, s) ==
    <<R(RInt(RDiv(a[1], s))), R(RInt(RDiv(a[2], s))), R(RInt(RDiv(a[3], s)))>>

\* Vector.__mod__: a zero component on the right passes the left one through.
ModComponent(x, d) == IF d[1] # 0 THEN RMod(x, d) ELSE x

mod(a, b) ==
    <<ModComponent(a[1], b[1]), ModComponent(a[2], b[2]), ModComponent(a[3], b[3])>>

dot(a, b) == RAdd(RAdd(RMul(a[1], b[1]), RMul(a[2], b[2])), RMul(a[3], b[3]))

\* The square of Vector.magnitude(): x**2 + y**2 + z**2 (the root is irrational).
magnitude_sq(a) == dot(a, a)

\* int(x / sqrt(s)) for a component x of a vector whose squared magnitude is
\* s > 0.  |x| <= sqrt(s), so the quotient lies in [-1, 1] and its truncation
\* is the k in {0, 1} with k*k*s <= x*x < (k+1)*(k+1)*s, with the sign of x.
IntDivRoot(x, s) ==
    LET xx == RMul(x, x)
        k == CHOOSE j \in 0..1 :
                /\ RLe(RMul(R(j * j), s), xx)
                /\ RLt(xx, RMul(R((j + 1) * (j + 1)), s))
    IN  R(Sign(x[1]) * k)

\* Vector.normalize(): self / self.magnitude(), through the truncating
\* __truediv__; defined for a non-zero vector (a zero magnitude raises).
normalize(a) ==
    LET s == magnitude_sq(a)
    IN  <<IntDivRoot(a[1], s), IntDivRoot(a[2], s), IntDivRoot(a[3], s)>>

(***************************************************************************)
(* The scenarios explored: two bodies in one universe (Init), and three    *)
(* bodies that overlap one another, registered in any order (InitThree).   *)
(***************************************************************************)
\* The names of the bodies a scenario can register in its universe.
Matters == 1..3

\* Body 1 may have mass 0 (the program does not validate it).
Masses(b) == IF b = 1 THEN 0..MaxMass ELSE {1, MaxMass}

Radii == {1}

Positions(b) ==
    IF b = 1
    THEN {Vector(0, 0, 0)}
    ELSE {Vector(1, 0, 0), Vector(1, 1, 0), Vector(0, 0, 0), Vector(3, 3, 0)}

Velocities(b) ==
    IF b = 1
    THEN {Vector(0, 0, 0), Vector(2, 1, 0)}
    ELSE {Vector(0, 0, 0), Vector(-1, 0, 0)}

\* The forces the host applies.
Forces == {Vector(1, 1, -1), Vector(3, -3, 0)}

Dimensions == {Vector(4, 4, 4)}

\* Matter.acceleration does not exist before the third law first sets it.
NoAcceleration == <<>>

VARIABLES
    position,       \* Matter.position, per body
    velocity,       \* Matter.velocity
    acceleration,   \* Matter.acceleration (set by ThirdLaw.apply)
    mass,           \* Matter.mass
    radius,         \* Matter.radius
    debt,           \* Matter.debt: the queue of pending forces
    universe,       \* Universe: dimensions, toroidal, objects
    err,            \* the outcome of the last call: "none" or the exception raised
    hist,           \* history: the calls made so far, in order
    initial,        \* history: position and velocity at construction
    tags,           \* history: for every debt entry, 0 (apply_force) or the
                    \*   other body of the collision that queued it
    tick,           \* history: the bodies updated in the current tick and, per
                    \*   body, how many debts of each collision pair its velocity
                    \*   received in this tick
    collided        \* history: the bodies that were one of an overlapping pair
                    \*   found by the loop of some Motion.update

vars ==
    <<position, velocity, acceleration, mass, radius, debt, universe, err,
      hist, initial, tags, tick, collided>>

\* The bodies registered in the universe: the elements of universe.objects.
Bodies == {universe.objects[i] : i \in DOMAIN universe.objects}

\* Universe.restitution: the default, 1.
restitution(u) == R(1)

\* Space.has_boundaries (visual.py): not toroidal.
has_boundaries(u) == ~u.toroidal

NoneApplied == [b \in Bodies |-> [o \in Bodies |-> 0]]

Init ==
    /\ \E d \in Dimensions, t \in BOOLEAN :
          universe = [dimensions |-> d, toroidal |-> t, objects |-> <<1, 2>>]
    /\ position \in [Bodies -> UNION {Positions(b) : b \in Bodies}]
    /\ \A b \in Bodies : position[b] \in Positions(b)
    /\ velocity \in [Bodies -> UNION {Velocities(b) : b \in Bodies}]
    /\ \A b \in Bodies : velocity[b] \in Velocities(b)
    /\ mass \in [Bodies -> UNION {Masses(b) : b \in Bodies}]
    /\ \A b \in Bodies : mass[b] \in Masses(b)
    /\ radius \in [Bodies -> Radii]
    /\ acceleration = [b \in Bodies |-> NoAcceleration]
    /\ debt = [b \in Bodies |-> <<>>]
    /\ err = "none"
    /\ hist = <<>>
    /\ initial = [position |-> position, velocity |-> velocity]
    /\ tags = [b \in Bodies |-> <<>>]
    /\ tick = [done |-> {}, applied |-> NoneApplied]
    /\ collided = {}

\* The orders in which three bodies can be registered in universe.objects.
Orders == {s \in [1..3 -> 1..3] : \A i, j \in 1..3 : i # j => s[i] # s[j]}

\* Three bodies of radius 1: body 1 at the origin overlaps body 2 at (1,0,0)
\* and body 3, which lies at (0,1,0) or exactly on body 1.
InitThree ==
    /\ \E d \in Dimensions, t \in BOOLEAN, s \in Orders :
          universe = [dimensions |-> d, toroidal |-> t, objects |-> s]
    /\ \E p3 \in {Vector(0, 1, 0), Vector(0, 0, 0)} :
          position = <<Vector(0, 0, 0), Vector(1, 0, 0), p3>>
    /\ velocity = <<Vector(2, 1, 0), Vector(-1, 0, 0), Vector(0, 0, 0)>>
    /\ \E m \in {1, MaxMass} : mass = <<1, m, 1>>
    /\ radius \in [Bodies -> Radii]
    /\ acceleration = [b \in Bodies |-> NoAcceleration]
    /\ debt = [b \in Bodies |-> <<>>]
    /\ err = "none"
    /\ hist = <<>>
    /\ initial = [position |-> position, velocity |-> velocity]
    /\ tags = [b \in Bodies |-> <<>>]
    /\ tick = [done |-> {}, applied |-> NoneApplied]
    /\ collided = {}

(***************************************************************************)
(* History bookkeeping (no program state).                                 *)
(***************************************************************************)
Call(op, b, f) == [op |-> op, b |-> b, f |-> f]

\* How many entries of a tag sequence name the body o.
Count(ts, o) == Cardinality({i \in DOMAIN ts : ts[i] = o})

\* The tick after an update of b whose first-law pass consumed the debt
\* entries tagged ts.  A tick is a run of updates of distinct bodies: an
\* update of a body already updated opens the next tick.
TickAfter(b, ts) ==
    LET base == IF b \in tick.done
                THEN [done |-> {}, applied |-> NoneApplied]
                ELSE tick
    IN  [done |-> base.done \cup {b},
         applied |-> [base.applied EXCEPT
                         ![b] = [o \in Bodies |-> @[o] + Count(ts, o)]]]

(***************************************************************************)
(* Matter (matter.py).                                                     *)
(***************************************************************************)
\* A variant of Matter.apply_force whose quotient is rounded down (floor
\* division) instead of truncated toward zero.
Matter_apply_force_floor(q, f, m) ==
    Append(q, <<R(RFloor(RDiv(f[1], R(m)))), R(RFloor(RDiv(f[2], R(m)))),
                R(RFloor(RDiv(f[3], R(m))))>>)

\* Matter.apply_force: self.debt.append(force / self.mass), for mass # 0.
Matter_apply_force(q, f, m) == Append(q, truediv(f, R(m)))

\* Matter.add_debt(force): called by Collision._resolve_objects.
add_debt(q, f) == Append(q, f)

\* for force in debt: velocity = velocity + force
RECURSIVE drain(_, _)
drain(v, q) == IF q = <<>> THEN v ELSE drain(add(v, Head(q)), Tail(q))

\* A variant of the wrap that is applied whatever area.has_boundaries says.
wrap_always(p, u) == mod(p, u.dimensions)

\* if area.has_boundaries: self.position = self.position % area.dimensions
wrap(p, u) == IF has_boundaries(u) THEN mod(p, u.dimensions) ELSE p

\* Matter.update, after the loop over the debt has left the velocity v1.
Matter_integrate(p, v1, u) ==
    [position |-> wrap(add(p, v1), u), velocity |-> v1, debt |-> <<>>]

\* A variant of Matter.update that moves the body by the velocity it had
\* before the debt was drained.
Matter_update_stale(p, v, q, u) ==
    [position |-> wrap(add(p, v), u), velocity |-> drain(v, q), debt |-> <<>>]

\* Matter.update(area): the state of the body after the call.
Matter_update_result(p, v, q, u) == Matter_integrate(p, drain(v, q), u)

apply_force(b, f) ==
    /\ b \in Bodies
    /\ Len(hist) < MaxSteps
    /\ IF mass[b] = 0
       THEN /\ err' = "ZeroDivisionError"
            /\ UNCHANGED <<debt, tags>>
       ELSE /\ debt' = [debt EXCEPT ![b] = Matter_apply_force(@, f, mass[b])]
            /\ tags' = [tags EXCEPT ![b] = Append(@, 0)]
            /\ err' = "none"
    /\ hist' = Append(hist, Call("apply_force", b, f))
    /\ UNCHANGED <<position, velocity, acceleration, mass, radius, universe,
                   initial, tick, collided>>

\* The body b takes the state r.
Matter_set(b, r) ==
    /\ position' = [position EXCEPT ![b] = r.position]
    /\ velocity' = [velocity EXCEPT ![b] = r.velocity]
    /\ debt' = [debt EXCEPT ![b] = r.debt]

Matter_update(b) ==
    /\ b \in Bodies
    /\ Len(hist) < MaxSteps
    /\ Matter_set(b, Matter_update_result(position[b], velocity[b], debt[b], universe))
    /\ tags' = [tags EXCEPT ![b] = <<>>]
    /\ tick' = TickAfter(b, tags[b])
    /\ err' = "none"
    /\ hist' = Append(hist, Call("Matter_update", b, Zero))
    /\ UNCHANGED <<acceleration, mass, radius, universe, initial, collided>>

(***************************************************************************)
(* Collision (collision.py).                                               *)
(***************************************************************************)
\* Collision._detect_border
detect_border(p, u) ==
    IF u.toroidal
    THEN FALSE
    ELSE \/ RLt(p[1], R(0))
         \/ RLt(u.dimensions[1], p[1])
         \/ RLt(p[2], R(0))
         \/ RLt(u.dimensions[2], p[2])

Clamp(x, hi) == IF RLt(x, R(0)) THEN R(0) ELSE IF RLt(hi, x) THEN hi ELSE x

\* Collision._resolve_border: the position it leaves.
resolve_border(p, u) ==
    IF u.toroidal
    THEN <<Clamp(p[1], u.dimensions[1]), Clamp(p[2], u.dimensions[2]), p[3]>>
    ELSE p

\* A variant of Collision._detect_objects that compares the distance with
\* the square of the radius sum.
detect_objects_wide(p1, r1, p2, r2) ==
    /\ r1 + r2 > 0
    /\ RLt(magnitude_sq(sub(p1, p2)),
           R((r1 + r2) * (r1 + r2) * (r1 + r2) * (r1 + r2)))

\* A variant of Collision._detect_objects that also reports bodies that just
\* touch (<= instead of <).
detect_objects_touching(p1, r1, p2, r2) ==
    /\ r1 + r2 > 0
    /\ RLe(magnitude_sq(sub(p1, p2)), R((r1 + r2) * (r1 + r2)))

\* Collision._detect_objects: distance < radius1 + radius2, on the squares
\* (the distance is not negative).
detect_objects(p1, r1, p2, r2) ==
    /\ r1 + r2 > 0
    /\ RLt(magnitude_sq(sub(p1, p2)), R((r1 + r2) * (r1 + r2)))

\* Collision._resolve_objects raises ZeroDivisionError: in normalize() for
\* coincident positions, in the elastic formula for a zero mass sum.
resolve_raises(p1, m1, p2, m2) ==
    \/ magnitude_sq(sub(p2, p1)) = R(0)
    \/ m1 + m2 = 0

\* tangent = Vector(-normal.y, normal.x)
tangent_of(normal) == <<RNeg(normal[2]), normal[1], R(0)>>

\* The 1-D elastic collision formula for the normal component of the body a:
\* (van * (ma - mb) + 2 * mb * vbn) / (ma + mb), for ma + mb # 0.
vn_after(van, ma, vbn, mb) ==
    RDiv(RAdd(RMul(van, R(ma - mb)), RMul(R(2 * mb), vbn)), R(ma + mb))

\* normal * v_n_after + tangent * v_t
recompose(normal, tangent, vn, vt) == add(mul(normal, vn), mul(tangent, vt))

\* Collision._resolve_objects from the normal and tangent on: the two vectors
\* it passes to add_debt, for object1 and for object2.
resolve_in_basis(normal, tangent, v1, m1, v2, m2) ==
    <<recompose(normal, tangent,
                vn_after(dot(normal, v1), m1, dot(normal, v2), m2),
                dot(tangent, v1)),
      recompose(normal, tangent,
                vn_after(dot(normal, v2), m2, dot(normal, v1), m1),
                dot(tangent, v2))>>

resolve_along(normal, v1, m1, v2, m2) ==
    resolve_in_basis(normal, tangent_of(normal), v1, m1, v2, m2)

\* Collision._resolve_objects: the two vectors it passes to add_debt.
resolve_objects(p1, v1, m1, p2, v2, m2) ==
    resolve_along(normalize(sub(p2, p1)), v1, m1, v2, m2)

(***************************************************************************)
(* Motion (motion.py).                                                     *)
(***************************************************************************)
FirstLaw_apply(v, force) == add(v, force)

SecondLaw_apply(p, v) == add(p, v)

\* ThirdLaw.apply: the acceleration it stores, for mass # 0.
ThirdLaw_apply(v, m) == truediv(v, R(m))

\* for debt in object.debt: FirstLaw.apply(object, debt)
RECURSIVE first_law_pass(_, _)
first_law_pass(v, q) ==
    IF q = <<>> THEN v ELSE first_law_pass(FirstLaw_apply(v, Head(q)), Tail(q))

\* object1.add_debt(...); object2.add_debt(...) at the end of
\* Collision._resolve_objects(b, o), r being the two vectors.
queue_resolution(acc, b, o, r) ==
    [acc EXCEPT !.debt = [@ EXCEPT ![b] = add_debt(@, r[1]),
                                   ![o] = add_debt(@, r[2])],
                !.tags = [@ EXCEPT ![b] = Append(@, o),
                                   ![o] = Append(@, b)]]

\* A variant of Collision.resolve(b, o) that reads the other body as it was at
\* construction (a snapshot) instead of as it is now.
resolve_pair_snapshot(acc, b, pb, o) ==
    IF resolve_raises(pb, mass[b], initial.position[o], mass[o])
    THEN [acc EXCEPT !.raised = TRUE]
    ELSE queue_resolution(acc, b, o,
             resolve_objects(pb, velocity[b], mass[b],
                             initial.position[o], initial.velocity[o], mass[o]))

\* Collision.resolve(b, o) inside the loop, for the body b at pb.
resolve_pair(acc, b, pb, o) ==
    IF resolve_raises(pb, mass[b], position[o], mass[o])
    THEN [acc EXCEPT !.raised = TRUE]
    ELSE queue_resolution(acc, b, o,
             resolve_objects(pb, velocity[b], mass[b],
                             position[o], velocity[o], mass[o]))

\* A variant of the loop of Motion.update without the test
\* "other_object is not object": the body is compared with itself too.
RECURSIVE scan_objects_self(_, _, _, _)
scan_objects_self(b, pb, others, acc) ==
    IF others = <<>> \/ acc.raised
    THEN acc
    ELSE IF detect_objects(pb, radius[b], position[Head(others)],
                           radius[Head(others)])
         THEN scan_objects_self(b, pb, Tail(others),
                                resolve_pair(acc, b, pb, Head(others)))
         ELSE scan_objects_self(b, pb, Tail(others), acc)

\* The loop of Motion.update over universe.objects for the body b at pb: the
\* debt queues (and their tags) it leaves, and whether a resolve raised.
RECURSIVE scan_objects(_, _, _, _)
scan_objects(b, pb, others, acc) ==
    IF others = <<>> \/ acc.raised
    THEN acc
    ELSE IF /\ Head(others) # b
            /\ detect_objects(pb, radius[b], position[Head(others)],
                              radius[Head(others)])
         THEN scan_objects(b, pb, Tail(others),
                           resolve_pair(acc, b, pb, Head(others)))
         ELSE scan_objects(b, pb, Tail(others), acc)

\* if Collision.detect(object, universe): Collision.resolve(object, universe)
border_step(p, u) == IF detect_border(p, u) THEN resolve_border(p, u) ELSE p

\* The three laws of Motion.update for the body b at pb, the first-law pass
\* having left the velocity v; sc is what the loop over the objects left.
\* Motion.update does not touch object.debt after reading it.
Motion_laws(b, pb, sc, v) ==
    /\ velocity' = [velocity EXCEPT ![b] = v]
    /\ position' = [position EXCEPT ![b] = SecondLaw_apply(pb, v)]
    /\ debt' = sc.debt
    /\ tags' = sc.tags
    /\ tick' = TickAfter(b, sc.tags[b])
    /\ IF mass[b] = 0
       THEN /\ err' = "ZeroDivisionError"
            /\ UNCHANGED acceleration
       ELSE /\ err' = "none"
            /\ acceleration' = [acceleration EXCEPT ![b] = ThirdLaw_apply(v, mass[b])]

\* A variant of Motion.update that catches the error of a resolution and
\* returns normally, the laws skipped.
Motion_after_scan_caught(b, pb, sc) ==
    IF sc.raised
    THEN /\ position' = [position EXCEPT ![b] = pb]
         /\ debt' = sc.debt
         /\ tags' = sc.tags
         /\ tick' = TickAfter(b, <<>>)
         /\ err' = "none"
         /\ UNCHANGED <<velocity, acceleration>>
    ELSE Motion_laws(b, pb, sc, first_law_pass(velocity[b], sc.debt[b]))

\* Motion.update after the loop over the objects, which left sc.
Motion_after_scan(b, pb, sc) ==
    IF sc.raised
    THEN /\ position' = [position EXCEPT ![b] = pb]
         /\ debt' = sc.debt
         /\ tags' = sc.tags
         /\ tick' = TickAfter(b, <<>>)
         /\ err' = "ZeroDivisionError"
         /\ UNCHANGED <<velocity, acceleration>>
    ELSE Motion_laws(b, pb, sc, first_law_pass(velocity[b], sc.debt[b]))

\* Motion.update for the body b, the border check having left it at pb.
Motion_from(b, pb) ==
    Motion_after_scan(b, pb,
        scan_objects(b, pb, universe.objects,
                     [debt |-> debt, tags |-> tags, raised |-> FALSE]))

\* The bodies of the overlapping pairs that the loop of Motion.update finds
\* for the body b at pb.
detected(b, pb) ==
    LET others == {o \in Bodies \ {b} :
                      detect_objects(pb, radius[b], position[o], radius[o])}
    IN  IF others = {} THEN {} ELSE others \cup {b}

Motion_update(b) ==
    /\ b \in Bodies
    /\ Len(hist) < MaxSteps
    /\ Motion_from(b, border_step(position[b], universe))
    /\ collided' = collided \cup detected(b, border_step(position[b], universe))
    /\ hist' = Append(hist, Call("Motion_update", b, Zero))
    /\ UNCHANGED <<mass, radius, universe, initial>>

Next ==
    \E b \in Matters :
        \/ \E f \in Forces : apply_force(b, f)
        \/ Matter_update(b)
        \/ Motion_update(b)

Spec == Init /\ [][Next]_vars

SpecThree == InitThree /\ [][Next]_vars

(***************************************************************************)
(* The Motion of main.py, a second copy of Vector, the laws and Motion in  *)
(* the package: Motion.update(object, debts) takes the forces as an        *)
(* argument, has no collision handling, and its third law also changes the *)
(* velocity.  Its Vector arithmetic is the same as that of data.py.        *)
(***************************************************************************)
\* The lists of forces the host passes as debts.
DebtLists ==
    {<<>>, <<Vector(1, 1, -1)>>, <<Vector(1, 1, -1), Vector(3, -3, 0)>>}

\* ThirdLaw.apply of main.py, for mass # 0: the acceleration it stores and the
\* velocity it leaves.
main_ThirdLaw_apply(v, m) ==
    [acceleration |-> truediv(v, R(m)),
     velocity |-> add(v, truediv(v, R(m)))]

\* Motion.update(object, debts) of main.py for the body b, the first-law pass
\* having left the velocity v.  A mass of 0 raises in the third law, after
\* the first two laws and before "object.debt = []".
main_Motion_laws(b, v) ==
    /\ position' = [position EXCEPT ![b] = SecondLaw_apply(@, v)]
    /\ IF mass[b] = 0
       THEN /\ velocity' = [velocity EXCEPT ![b] = v]
            /\ err' = "ZeroDivisionError"
            /\ UNCHANGED <<acceleration, debt, tags>>
       ELSE /\ acceleration' = [acceleration EXCEPT
                                   ![b] = main_ThirdLaw_apply(v, mass[b]).acceleration]
            /\ velocity' = [velocity EXCEPT
                               ![b] = main_ThirdLaw_apply(v, mass[b]).velocity]
            /\ debt' = [debt EXCEPT ![b] = <<>>]
            /\ tags' = [tags EXCEPT ![b] = <<>>]
            /\ err' = "none"

main_Motion_update(b, debts) ==
    /\ b \in Bodies
    /\ Len(hist) < MaxSteps
    /\ main_Motion_laws(b, first_law_pass(velocity[b], debts))
    /\ tick' = TickAfter(b, <<>>)
    /\ hist' = Append(hist, Call("main_Motion_update", b, Zero))
    /\ UNCHANGED <<mass, radius, universe, initial, collided>>

NextMain == \E b \in Matters : \E debts \in DebtLists : main_Motion_update(b, debts)

SpecMain == Init /\ [][NextMain]_vars

(***************************************************************************)
(* Properties.                                                             *)
(***************************************************************************)
Updates == {"Matter_update", "Motion_update"}

\* The last call made.
Last == hist[Len(hist)]

\* A call of update on some body has just returned normally.
UpdateReturned == hist # <<>> /\ Last.op \in Updates /\ err = "none"

\* Every coordinate lies in [0, dimensions) of the universe.
InBounds(p, u) ==
    \A i \in 1..3 : RLe(R(0), p[i]) /\ RLt(p[i], u.dimensions[i])

\* Every coordinate lies in [0, dimensions] of the universe.
InClosedBounds(p, u) ==
    \A i \in 1..3 : RLe(R(0), p[i]) /\ RLe(p[i], u.dimensions[i])

\* The body b at p overlaps no other body of the universe.
OverlapsNone(b, p) ==
    \A i \in DOMAIN universe.objects :
        LET o == universe.objects[i]
        IN  o # b => ~detect_objects(p, radius[b], position[o], radius[o])

\* The quotient x / m of a scalar x = n/d by an integer m > 0, truncated toward
\* zero: the integer k with the sign of x and |k|*m*d <= |n| < (|k|+1)*m*d.
Truncated(x, m) ==
    CHOOSE k \in -Abs(x[1])..Abs(x[1]) :
        /\ Abs(k) * m * x[2] <= Abs(x[1])
        /\ Abs(x[1]) < (Abs(k) + 1) * m * x[2]
        /\ k * x[1] >= 0

TruncatedVector(f, m) ==
    <<R(Truncated(f[1], m)), R(Truncated(f[2], m)), R(Truncated(f[3], m))>>

\* C1 (as claimed): immediately after update(b, universe) returns, the debt
\* queue of b is empty (so a queue is non-empty only between an enqueue and
\* the body's next update).
C1_DebtEmptyAfterUpdate ==
    UpdateReturned => debt[Last.b] = <<>>

\* The step is the call op on the body b with the argument f.
Calls(op, b, f) == hist' = Append(hist, Call(op, b, f))

\* C2 (as claimed): apply_force(f) on a body of mass > 0 appends exactly f as
\* the last element of the debt queue, which grows by one, and leaves the
\* velocity and the position unchanged.
C2_AppendsForce ==
    [][\A b \in Bodies, f \in Forces :
          (Calls("apply_force", b, f) /\ mass[b] > 0) =>
              /\ debt'[b] = Append(debt[b], f)
              /\ velocity' = velocity
              /\ position' = position]_vars

\* C2 (amended): apply_force(f) on a body of mass m > 0 appends, as the last
\* element of the body's debt queue, the vector whose components are those of
\* f divided by m and truncated toward zero; the queue grows by one, no other
\* queue changes, and velocity and position are unchanged.
C2_AppendsTruncatedQuotient ==
    [][\A b \in Bodies, f \in Forces :
          (Calls("apply_force", b, f) /\ mass[b] > 0) =>
              /\ err' = "none"
              /\ Len(debt'[b]) = Len(debt[b]) + 1
              /\ debt'[b][Len(debt'[b])] = TruncatedVector(f, mass[b])
              /\ SubSeq(debt'[b], 1, Len(debt[b])) = debt[b]
              /\ \A o \in Bodies \ {b} : debt'[o] = debt[o]
              /\ velocity' = velocity
              /\ position' = position]_vars

\* C2 witness: a second force has been queued on a body of mass 2, and the
\* entry queued differs from the force.
C2_Witness ==
    /\ hist # <<>>
    /\ Last.op = "apply_force"
    /\ err = "none"
    /\ mass[Last.b] = 2
    /\ Len(debt[Last.b]) = 2
    /\ debt[Last.b][2] # Last.f
    /\ debt[Last.b][2] # Zero

\* C3 (as claimed): immediately after apply_force(f) the velocity of the body is
\* its previous velocity plus f; position, mass and radius are unchanged.
C3_VelocityChangesAtOnce ==
    [][\A b \in Bodies, f \in Forces :
          (Calls("apply_force", b, f) /\ mass[b] > 0) =>
              /\ velocity'[b] = add(velocity[b], f)
              /\ position' = position
              /\ mass' = mass
              /\ radius' = radius]_vars

\* The history is apply_force(f) then one update, both on the body b, which
\* started at the origin with zero velocity and mass > 0, overlapping no
\* other body; the update returned normally.
ForceThenUpdate(b, f) ==
    /\ Len(hist) = 2
    /\ hist[1] = Call("apply_force", b, f)
    /\ hist[2].op \in Updates
    /\ hist[2].b = b
    /\ err = "none"
    /\ mass[b] > 0
    /\ initial.position[b] = Zero
    /\ initial.velocity[b] = Zero
    /\ OverlapsNone(b, Zero)

UpdateMeetsNothing(b) ==
    /\ debt[b] = <<>>
    /\ OverlapsNone(b, position[b])
    /\ \/ ~has_boundaries(universe)
       \/ /\ InBounds(position[b], universe)
          /\ InBounds(add(position[b], velocity[b]), universe)

\* n times the vector v.
RECURSIVE times(_, _)
times(n, v) == IF n = 0 THEN Zero ELSE add(v, times(n - 1, v))

\* Every call so far was an update of the body b that returned normally, and
\* each of them met nothing: b, moving from p0 by v0 per update, overlapped no
\* other body before any of them and stayed inside the universe (or the
\* universe has no boundaries).
OnlyFreeUpdates(b) ==
    /\ \A i \in DOMAIN hist : hist[i].op \in Updates /\ hist[i].b = b
    /\ mass[b] > 0
    /\ \A j \in 0..(Len(hist) - 1) :
          OverlapsNone(b, add(initial.position[b], times(j, initial.velocity[b])))
    /\ \/ ~has_boundaries(universe)
       \/ \A j \in 0..Len(hist) :
             InBounds(add(initial.position[b], times(j, initial.velocity[b])), universe)

LastUpdate(b) ==
    LET ups == {i \in DOMAIN hist : hist[i].op \in Updates /\ hist[i].b = b}
    IN  IF ups = {} THEN 0 ELSE CHOOSE i \in ups : \A j \in ups : j <= i

\* The sum of what the calls hist[i..n] of apply_force on b have queued.
RECURSIVE QueuedIn(_, _, _)
QueuedIn(b, i, n) ==
    IF i > n THEN Zero
    ELSE IF hist[i].op = "apply_force" /\ hist[i].b = b
         THEN add(Matter_apply_force(<<>>, hist[i].f, mass[b])[1], QueuedIn(b, i + 1, n))
         ELSE QueuedIn(b, i + 1, n)

\* C6: for a body that was in no collision, after its k-th update the velocity
\* is the initial velocity plus the sum of everything apply_force queued
\* before that update, each entry counted once: no update applies an entry
\* that an earlier update has already applied.
C6_EveryForceAppliedOnce ==
    \A b \in Bodies :
        (b \notin collided /\ mass[b] > 0) =>
            velocity[b] = add(initial.velocity[b], QueuedIn(b, 1, LastUpdate(b)))

\* A tick of two overlapping bodies has just ended: Motion.update has run once
\* for a and then once for o, the two bodies having started at distinct
\* positions, overlapping, with positive masses.
CollisionTick(a, o) ==
    /\ a # o
    /\ hist = <<Call("Motion_update", a, Zero), Call("Motion_update", o, Zero)>>
    /\ err = "none"
    /\ mass[a] > 0 /\ mass[o] > 0
    /\ initial.position[a] # initial.position[o]
    /\ detect_objects(initial.position[a], radius[a], initial.position[o], radius[o])

\* C7: at the end of a tick in which the update of a body found it overlapping
\* another, the velocity of each of the two is its recomposed post-collision
\* velocity normal * v_n' + tangent * v_t, computed from the velocities before
\* the collision.
C7_VelocityIsRecomposed ==
    \A a, o \in Bodies :
        CollisionTick(a, o) =>
            /\ velocity[a] =
                  resolve_objects(initial.position[a], initial.velocity[a], mass[a],
                                  initial.position[o], initial.velocity[o], mass[o])[1]
            /\ velocity[o] =
                  resolve_objects(initial.position[a], initial.velocity[a], mass[a],
                                  initial.position[o], initial.velocity[o], mass[o])[2]

\* C8: within a tick (every body updated at most once so far), the velocity
\* of a body has received the resolution of its overlap with any given other
\* body at most once.
C8_ResolutionAppliedOnce ==
    \A b, o \in Bodies : tick.applied[b][o] <= 1

\* m1 * v1 + m2 * v2
momentum(m1, v1, m2, v2) == add(mul(v1, R(m1)), mul(v2, R(m2)))

\* 1/2 * m1 * v1^2 + 1/2 * m2 * v2^2
kinetic_energy(m1, v1, m2, v2) ==
    RMul(Rat(1, 2), RAdd(RMul(R(m1), dot(v1, v1)), RMul(R(m2), dot(v2, v2))))

\* The update of b now running resolves an overlap of b with o.
Resolves(b, o) ==
    /\ o # b
    /\ Calls("Motion_update", b, Zero)
    /\ Len(debt'[b]) = Len(debt[b]) + 1
    /\ Len(debt'[o]) = Len(debt[o]) + 1

\* C9: whenever the overlap of two bodies of positive mass at distinct
\* positions is resolved, the two resolved velocities (the vectors handed to
\* add_debt) have the total momentum and the total kinetic energy that the two
\* bodies had before the collision.
C9_ResolutionConserves ==
    [][\A b, o \in Bodies :
          (Resolves(b, o) /\ mass[b] > 0 /\ mass[o] > 0) =>
              /\ momentum(mass[b], debt'[b][Len(debt'[b])],
                          mass[o], debt'[o][Len(debt'[o])])
                    = momentum(mass[b], velocity[b], mass[o], velocity[o])
              /\ kinetic_energy(mass[b], debt'[b][Len(debt'[b])],
                                mass[o], debt'[o][Len(debt'[o])])
                    = kinetic_energy(mass[b], velocity[b], mass[o], velocity[o])]_vars

\* C10: in a toroidal universe, after an update of a body has returned every
\* coordinate of its position lies in [0, dimensions].
C10_ToroidalStaysInside ==
    (universe.toroidal /\ UpdateReturned) =>
        InClosedBounds(position[Last.b], universe)

\* The axes on which the position p lies outside [0, dimensions].
OutsideAxes(p, u) ==
    {i \in 1..3 : RLt(p[i], R(0)) \/ RLt(u.dimensions[i], p[i])}

\* Where a body of radius r, outside on an axis at x, rests on the boundary.
Rest(x, hi, r) == IF RLt(x, R(0)) THEN R(r) ELSE RSub(hi, R(r))

\* The velocity v after the bounce off the boundary at the position p.
Bounced(p, v, u) ==
    [i \in 1..3 |-> IF i \in OutsideAxes(p, u)
                    THEN RMul(RNeg(v[i]), restitution(u))
                    ELSE v[i]]

\* C11: in a bounded (non-toroidal) universe, when Motion.update finds the
\* body (overlapping no other body) outside the boundary on an axis, that
\* axis's position is clamped to radius or dimensions - radius and that
\* axis's velocity becomes -v * restitution before the laws are applied; the
\* other axes are untouched by the border step.
C11_BorderBounce ==
    [][\A b \in Bodies :
          (/\ Calls("Motion_update", b, Zero)
           /\ err' = "none"
           /\ ~universe.toroidal
           /\ OverlapsNone(b, position[b])
           /\ OutsideAxes(position[b], universe) # {}) =>
              \A i \in 1..3 :
                 /\ velocity'[b][i] =
                       first_law_pass(Bounced(position[b], velocity[b], universe),
                                      debt[b])[i]
                 /\ position'[b][i] =
                       RAdd(IF i \in OutsideAxes(position[b], universe)
                            THEN Rest(position[b][i], universe.dimensions[i], radius[b])
                            ELSE position[b][i],
                            velocity'[b][i])]_vars

\* C12: Collision.detect(body, universe), as Motion.update calls it, is true
\* exactly when the universe is not toroidal and some coordinate of the
\* position (x, y or z) lies outside [0, dimensions].
C12_DetectBorderAnyAxis ==
    [][\A b \in Bodies :
          Calls("Motion_update", b, Zero) =>
              (detect_border(position[b], universe) <=>
                  (~universe.toroidal /\ OutsideAxes(position[b], universe) # {}))]_vars

\* The square of the Euclidean distance between the points p and q.
DistanceSq(p, q) ==
    RAdd(RAdd(RMul(RSub(p[1], q[1]), RSub(p[1], q[1])),
              RMul(RSub(p[2], q[2]), RSub(p[2], q[2]))),
         RMul(RSub(p[3], q[3]), RSub(p[3], q[3])))

\* The step is an update of b in which Collision.detect(b, o) was true: the
\* resolution queued a debt for o, or raised (the only ZeroDivisionError of
\* an update of a body of positive mass).
FoundOverlap(b, o) ==
    \/ Len(debt'[o]) > Len(debt[o])
    \/ mass[b] > 0 /\ err' = "ZeroDivisionError"

\* C13: Motion.update of b treats b and another body o as colliding exactly
\* when the Euclidean distance of their positions is strictly less than the
\* sum of their radii (bodies that just touch do not collide); the criterion
\* is symmetric, so the update of o decides the same in the same state.
C13_OverlapIffCloser ==
    [][\A b, o \in Bodies :
          (/\ o # b
           /\ Calls("Motion_update", b, Zero)
           /\ mass[b] > 0 \/ position[b] # position[o]) =>
              (FoundOverlap(b, o) <=>
                  RLt(DistanceSq(position[b], position[o]),
                      R((radius[b] + radius[o]) * (radius[b] + radius[o]))))]_vars

\* C13 witness: body 1 has moved to distance 2 = radius + radius of body 2,
\* and the update of body 2 that followed queued nothing more.
C13_Witness ==
    /\ hist = <<Call("Motion_update", 1, Zero), Call("Motion_update", 2, Zero)>>
    /\ err = "none"
    /\ initial.position[2] = Vector(1, 0, 0)
    /\ position[1] = Vector(-1, 0, 0)
    /\ Len(debt[2]) = 1
    /\ Len(debt[1]) = 1

\* C14: the normal that a collision resolution computes, normalize() of the
\* non-zero difference of the two positions, has magnitude 1 (also when the
\* difference has more than one non-zero component).
C14_NormalHasMagnitudeOne ==
    [][\A b, o \in Bodies :
          Resolves(b, o) =>
              magnitude_sq(normalize(sub(position[o], position[b]))) = R(1)]_vars

\* The vectors the bodies hold: positions, velocities and queued debts.
HeldVectors ==
    {position[b] : b \in Bodies} \cup {velocity[b] : b \in Bodies}
        \cup UNION {{debt[b][i] : i \in DOMAIN debt[b]} : b \in Bodies}

\* The non-zero scalars tried.
Scalars == (-MaxMass..MaxMass) \ {0}

Coincident(b) ==
    \E o \in Bodies \ {b} : position[o] = position[b] /\ radius[b] + radius[o] > 0

\* C16: a Motion.update of a body that lies exactly where another body lies
\* ends in the ZeroDivisionError of normalize(), before any law is applied;
\* a Motion.update of a body of mass 0 ends in the ZeroDivisionError of the
\* third law, the acceleration not set; and an update raises in no other case.
C16_DivisionByZeroPropagates ==
    [][\A b \in Bodies :
          Calls("Motion_update", b, Zero) =>
              /\ Coincident(b) =>
                    /\ err' = "ZeroDivisionError"
                    /\ velocity' = velocity
                    /\ position' = position
                    /\ acceleration' = acceleration
              /\ mass[b] = 0 =>
                    /\ err' = "ZeroDivisionError"
                    /\ acceleration' = acceleration
              /\ err' = "ZeroDivisionError" => (Coincident(b) \/ mass[b] = 0)]_vars

\* C16 witness: the update of a body of positive mass that shares its
\* position with the other body has just raised.
C16_Witness ==
    /\ hist # <<>>
    /\ Last.op = "Motion_update"
    /\ mass[Last.b] > 0
    /\ position[1] = position[2]
    /\ err = "ZeroDivisionError"

\* The other body o lies closer to b than the sum of their radii.
Hit(b, o) ==
    /\ o # b
    /\ RLt(DistanceSq(position[b], position[o]),
           R((radius[b] + radius[o]) * (radius[b] + radius[o])))

\* The bodies that b overlaps, in the order of universe.objects.
Hits(b) == SelectSeq(universe.objects, LAMBDA o : Hit(b, o))

\* The resolution of an overlap of b raises for a body lying exactly on b.
HitRaises(b) == \E i \in DOMAIN Hits(b) : position[Hits(b)[i]] = position[b]

\* The bodies of hs up to the first one that lies exactly on b.
RECURSIVE UntilRaise(_, _)
UntilRaise(b, hs) ==
    IF hs = <<>> \/ position[Head(hs)] = position[b]
    THEN <<>>
    ELSE <<Head(hs)>> \o UntilRaise(b, Tail(hs))

\* The two vectors that resolving b against o queues, from the state before
\* the update.
Resolution(b, o) ==
    resolve_objects(position[b], velocity[b], mass[b],
                    position[o], velocity[o], mass[o])

\* The sum of the vector v and the vectors of the sequence q.
RECURSIVE SumFrom(_, _)
SumFrom(v, q) == IF q = <<>> THEN v ELSE SumFrom(add(v, Head(q)), Tail(q))

C18_UpdateFrame ==
    [][/\ mass' = mass
       /\ radius' = radius
       /\ universe'.objects = universe.objects
       /\ \A b \in Bodies, op \in Updates :
             Calls(op, b, Zero) =>
                 \A o \in Bodies \ {b} :
                     ~Hit(b, o) =>
                         /\ position'[o] = position[o]
                         /\ velocity'[o] = velocity[o]
                         /\ debt'[o] = debt[o]]_vars

\* C18 witness: body 2, out of reach of body 1 and with a force queued, has
\* kept its state through a Motion.update of body 1 that moved body 1.
C18_Witness ==
    /\ Len(hist) = 2
    /\ hist[1].op = "apply_force" /\ hist[1].b = 2
    /\ hist[2] = Call("Motion_update", 1, Zero)
    /\ err = "none"
    /\ initial.position[2] = Vector(3, 3, 0)
    /\ position[2] = initial.position[2]
    /\ velocity[2] = initial.velocity[2]
    /\ Len(debt[2]) = 1
    /\ position[1] # initial.position[1]

\* Motion.update as a function of the state st = [position, velocity, debt,
\* raised] of all bodies, for comparing the two orders of a tick.
\* The resolution of b against o, queued in st (or the error it raises).
ResolvedIn(st, b, o) ==
    IF resolve_raises(st.position[b], mass[b], st.position[o], mass[o])
    THEN [st EXCEPT !.raised = TRUE]
    ELSE [st EXCEPT
             !.debt[b] = Append(@, resolve_objects(st.position[b], st.velocity[b], mass[b],
                                                   st.position[o], st.velocity[o], mass[o])[1]),
             !.debt[o] = Append(@, resolve_objects(st.position[b], st.velocity[b], mass[b],
                                                   st.position[o], st.velocity[o], mass[o])[2])]

\* The loop over the other bodies.
RECURSIVE ScannedIn(_, _, _)
ScannedIn(st, b, others) ==
    IF others = <<>> \/ st.raised
    THEN st
    ELSE IF /\ Head(others) # b
            /\ detect_objects(st.position[b], radius[b],
                              st.position[Head(others)], radius[Head(others)])
         THEN ScannedIn(ResolvedIn(st, b, Head(others)), b, Tail(others))
         ELSE ScannedIn(st, b, Tail(others))

\* The three laws, after the loop has left sc.
LawsIn(sc, b) ==
    IF sc.raised
    THEN sc
    ELSE [sc EXCEPT
             !.velocity[b] = SumFrom(@, sc.debt[b]),
             !.position[b] = add(@, SumFrom(sc.velocity[b], sc.debt[b])),
             !.raised = (mass[b] = 0)]

\* The state after Motion.update of b in the state st.
UpdatedIn(st, b) ==
    IF st.raised
    THEN st
    ELSE LawsIn(ScannedIn([st EXCEPT !.position[b] = border_step(@, universe)],
                          b, universe.objects), b)

\* The state at construction.
Start ==
    [position |-> initial.position, velocity |-> initial.velocity,
     debt |-> [b \in Bodies |-> <<>>], raised |-> FALSE]

\* The state after the tick that updates a and then o, from construction.
TickIn(a, o) == UpdatedIn(UpdatedIn(Start, a), o)

\* The tick "a then o" has just run, each update returning normally.
TickDone(a, o) ==
    /\ a # o
    /\ hist = <<Call("Motion_update", a, Zero), Call("Motion_update", o, Zero)>>
    /\ ~TickIn(a, o).raised

\* The tick from construction in which the two bodies overlap at the start.
OverlapAtStart(a, o) ==
    detect_objects(initial.position[a], radius[a], initial.position[o], radius[o])

\* The end-of-tick positions or velocities of the tick "o then a" differ from
\* the present ones.
OtherOrderDiffers(a, o) ==
    \/ TickIn(o, a).position # position
    \/ TickIn(o, a).velocity # velocity

\* The scenario of a body at the origin moving with (2, 1, 0) that overlaps a
\* body at (1, 1, 0).
Diagonal ==
    /\ initial.position[1] = Vector(0, 0, 0)
    /\ initial.position[2] = Vector(1, 1, 0)
    /\ initial.velocity[1] = Vector(2, 1, 0)

OnlyAccelerationSet(b, q) ==
    /\ velocity'[b] = SumFrom(velocity[b], q)
    /\ position'[b] = add(position[b], SumFrom(velocity[b], q))
    /\ acceleration'[b] = TruncatedVector(SumFrom(velocity[b], q), mass[b])

\* C20: the third law sets acceleration to velocity / mass and changes nothing
\* else: after every update of a body of mass > 0 that returns normally, by
\* the Motion of motion.py or by the Motion of main.py, the velocity is the
\* one the first law left and the position is the old one plus that velocity,
\* whatever the acceleration was, so that no later tick is affected either.
C20_ThirdLawOnlySetsAcceleration ==
    [][\A b \in Bodies :
          mass[b] > 0 =>
              /\ (Calls("Motion_update", b, Zero) /\ err' = "none")
                     => OnlyAccelerationSet(b, debt'[b])
              /\ \A q \in DebtLists :
                     main_Motion_update(b, q) => OnlyAccelerationSet(b, q)]_vars

====
